---- MODULE Spec2Model ----
(***************************************************************************)
(* Model of open_spiel/games/mancala.cc: the Mancala rules engine          *)
(* (MancalaState).  Game states are objects on a heap; every object holds  *)
(* the members of MancalaState (board_, current_player_, num_moves_) and   *)
(* the members of the base class State the code relies on (history_,       *)
(* move_number_).  last_call is the last call made with the value it       *)
(* returned, undone the number of UndoAction calls made so far.            *)
(***************************************************************************)
EXTENDS Integers, Sequences, FiniteSets

VARIABLES objs, clone_ref, last_call, undone

vars == <<objs, clone_ref, last_call, undone>>

(* ------------------------------ bounds --------------------------------- *)

\* Depth to which every legal line of play is explored from the start.
MaxMoves == 6

\* Number of moves each of the two objects may make once a clone exists.
MaxCloneMoves == 2

\* Depth of play, and number of UndoAction calls, where the driver mixes
\* ApplyAction with UndoAction and the const queries.
MaxOpsMoves == 1

MaxUndos == 1

(* ----------------------------- constants ------------------------------- *)

kNumPits == 6

kTotalPits == (kNumPits + 1) * 2

\* The object the driver plays on, the object Clone() allocates, and the
\* null reference.
this == "state"

kCloneObj == "clone"

kNullRef == "null"

kNumCells == 14

kCellStates == 49

\* One complete line of legal play from the initial state up to a late
\* position (few beans left in the rows); from its end the driver plays every
\* legal continuation to the end of the game.
Line ==
    << 3, 4, 9, 13, 6, 10, 2, 12, 1, 8, 5, 12, 8, 3, 6, 13, 4, 11, 4, 13,
       10, 9, 2, 6, 12, 5, 13, 6, 1, 3, 4, 6, 11, 5, 8, 13, 1, 12, 13, 10,
       6, 2, 9, 4, 13, 5, 6, 1 >>

\* A second line of legal play: its 19th move sows pit 6 when that pit holds
\* 14 beans, and it too ends in a late position.
Line2 ==
    << 4, 13, 3, 12, 5, 8, 1, 12, 2, 11, 4, 5, 10, 3, 12, 9, 5, 13, 6, 13,
       11, 10, 4, 2, 6, 12, 1, 5, 13, 3, 4, 5, 6, 8, 2, 13, 11, 12, 9, 10,
       13, 1, 12, 13, 11, 2, 13 >>

Lines == {Line, Line2}

(* ------------------------------ helpers -------------------------------- *)

\* board_ is a std::array<int, kTotalPits>, indexed 0 .. kTotalPits - 1.
Pits == 0 .. (kTotalPits - 1)

\* board_.size()
Size(board) == Cardinality(DOMAIN board)

\* std::accumulate(board.begin() + first, board.begin() + last, init)
RECURSIVE Accumulate(_, _, _, _)
Accumulate(board, first, last, init) ==
    IF first >= last THEN init
    ELSE Accumulate(board, first + 1, last, init + board[first])

(* --------------------------- MancalaState ------------------------------ *)

\* InitBoard without the reset of player 0's store.
InitBoard_NoStoreReset ==
    LET filled == [p \in Pits |-> 4]
    IN  [filled EXCEPT ![0] = 0]

\* MancalaState::InitBoard
InitBoard ==
    LET filled == [p \in Pits |-> 4]
        b0     == [filled EXCEPT ![0] = 0]
    IN  [b0 EXCEPT ![Size(b0) \div 2] = 0]

\* MancalaState::MancalaState (with the in-class member initialisers)
NewState ==
    [board_          |-> InitBoard,
     current_player_ |-> 0,
     num_moves_      |-> 0,
     history_        |-> <<>>,
     move_number_    |-> 0]

\* GetPlayerHomePit with kNumPits in place of kTotalPits / 2.
GetPlayerHomePit_NumPits(player) ==
    IF player = 0 THEN kNumPits ELSE 0

\* MancalaState::GetPlayerHomePit
GetPlayerHomePit(player) ==
    IF player = 0 THEN kTotalPits \div 2 ELSE 0

\* The sowing loop with the bound i <= num_beans.
RECURSIVE Sow_OneMore(_, _, _, _)
Sow_OneMore(board, move, i, num_beans) ==
    IF i <= num_beans
    THEN LET q == (move + i + 1) % kTotalPits
         IN  Sow_OneMore([board EXCEPT ![q] = @ + 1], move, i + 1, num_beans)
    ELSE board

\* The sowing loop passing over the pit the beans were taken from.
RECURSIVE Sow_SkipSource(_, _, _, _)
Sow_SkipSource(board, move, i, num_beans) ==
    IF i < num_beans
    THEN LET q == (move + i + 1) % kTotalPits
         IN  Sow_SkipSource(IF q = move THEN board
                            ELSE [board EXCEPT ![q] = @ + 1],
                            move, i + 1, num_beans)
    ELSE board

\* The sowing loop taking each bean out of the (already emptied) pit as it
\* is sown.
RECURSIVE Sow_TakeFromSource(_, _, _, _)
Sow_TakeFromSource(board, move, i, num_beans) ==
    IF i < num_beans
    THEN LET q     == (move + i + 1) % kTotalPits
             taken == [board EXCEPT ![move] = @ - 1]
         IN  Sow_TakeFromSource([taken EXCEPT ![q] = @ + 1],
                                move, i + 1, num_beans)
    ELSE board

\* The sowing loop of DoApplyAction: iterations i .. num_beans - 1.
RECURSIVE Sow(_, _, _, _)
Sow(board, move, i, num_beans) ==
    IF i < num_beans
    THEN LET q == (move + i + 1) % kTotalPits
         IN  Sow([board EXCEPT ![q] = @ + 1], move, i + 1, num_beans)
    ELSE board

\* DoApplyAction with num_moves_ += 1 inside the if (counted only when the
\* turn passes).
DoApplyAction_CountOnPass(s, move) ==
    LET num_beans == s.board_[move]
        emptied   == [s.board_ EXCEPT ![move] = 0]
        sown      == Sow(emptied, move, 0, num_beans)
        passes    == (move + num_beans) % kTotalPits
                         # GetPlayerHomePit(s.current_player_)
    IN  [s EXCEPT !.board_ = sown,
                  !.current_player_ = IF passes THEN 1 - @ ELSE @,
                  !.num_moves_ = IF passes THEN @ + 1 ELSE @]

\* DoApplyAction without board_[move] = 0.
DoApplyAction_KeepsPit(s, move) ==
    LET num_beans == s.board_[move]
        sown      == Sow(s.board_, move, 0, num_beans)
        player    == IF (move + num_beans) % kTotalPits
                           # GetPlayerHomePit(s.current_player_)
                     THEN 1 - s.current_player_
                     ELSE s.current_player_
    IN  [s EXCEPT !.board_ = sown,
                  !.current_player_ = player,
                  !.num_moves_ = @ + 1]

\* MancalaState::DoApplyAction
DoApplyAction(s, move) ==
    LET num_beans == s.board_[move]
        emptied   == [s.board_ EXCEPT ![move] = 0]
        sown      == Sow(emptied, move, 0, num_beans)
        player    == IF (move + num_beans) % kTotalPits
                           # GetPlayerHomePit(s.current_player_)
                     THEN 1 - s.current_player_
                     ELSE s.current_player_
    IN  [s EXCEPT !.board_ = sown,
                  !.current_player_ = player,
                  !.num_moves_ = @ + 1]

\* IsTerminal requiring both sides to be exhausted.
IsTerminal_Both(s) ==
    LET player_1_has_moves ==
            \E i \in 0 .. (kNumPits - 1) :
                s.board_[Size(s.board_) - 1 - i] > 0
        player_0_has_moves ==
            \E i \in 0 .. (kNumPits - 1) : s.board_[i + 1] > 0
    IN  (~player_0_has_moves) /\ (~player_1_has_moves)

\* IsTerminal looking at player 1's row only.
IsTerminal_OnlyPlayer1(s) ==
    LET player_1_has_moves ==
            \E i \in 0 .. (kNumPits - 1) :
                s.board_[Size(s.board_) - 1 - i] > 0
    IN  ~player_1_has_moves

\* MancalaState::IsTerminal
IsTerminal(s) ==
    LET player_1_has_moves ==
            \E i \in 0 .. (kNumPits - 1) :
                s.board_[Size(s.board_) - 1 - i] > 0
        player_0_has_moves ==
            \E i \in 0 .. (kNumPits - 1) : s.board_[i + 1] > 0
    IN  (~player_0_has_moves) \/ (~player_1_has_moves)

\* LegalActions pushing i instead of i + 1 for player 0.
LegalActions_PushIndex(s) ==
    IF IsTerminal(s) THEN <<>>
    ELSE IF s.current_player_ = 0
         THEN SelectSeq([k \in 1 .. kNumPits |-> k - 1],
                        LAMBDA pit : s.board_[pit + 1] > 0)
         ELSE SelectSeq([k \in 1 .. kNumPits |->
                             Size(s.board_) - 1 - (k - 1)],
                        LAMBDA pit : s.board_[pit] > 0)

\* LegalActions without the terminal short-circuit.
LegalActions_NoTerminalCheck(s) ==
    IF s.current_player_ = 0
    THEN SelectSeq([k \in 1 .. kNumPits |-> (k - 1) + 1],
                   LAMBDA pit : s.board_[pit] > 0)
    ELSE SelectSeq([k \in 1 .. kNumPits |-> Size(s.board_) - 1 - (k - 1)],
                   LAMBDA pit : s.board_[pit] > 0)

\* LegalActions with i <= kNumPits in player 0's loop: store 7 is offered.
LegalActions_OneMore(s) ==
    IF IsTerminal(s) THEN <<>>
    ELSE IF s.current_player_ = 0
         THEN SelectSeq([k \in 1 .. (kNumPits + 1) |-> (k - 1) + 1],
                        LAMBDA pit : s.board_[pit] > 0)
         ELSE SelectSeq([k \in 1 .. kNumPits |->
                             Size(s.board_) - 1 - (k - 1)],
                        LAMBDA pit : s.board_[pit] > 0)

\* MancalaState::LegalActions
LegalActions(s) ==
    IF IsTerminal(s) THEN <<>>
    ELSE IF s.current_player_ = 0
         THEN SelectSeq([k \in 1 .. kNumPits |-> (k - 1) + 1],
                        LAMBDA pit : s.board_[pit] > 0)
         ELSE SelectSeq([k \in 1 .. kNumPits |->
                             Size(s.board_) - 1 - (k - 1)],
                        LAMBDA pit : s.board_[pit] > 0)

\* Returns summing player 0's row without the store (end iterator one short).
Returns_NoStore(s) ==
    LET player_0_bean_sum ==
            Accumulate(s.board_, 1, kTotalPits \div 2, 0)
        player_1_bean_sum ==
            Accumulate(s.board_, kTotalPits \div 2 + 1, Size(s.board_), 0)
                + s.board_[0]
    IN  IF player_0_bean_sum > player_1_bean_sum THEN <<1, -1>>
        ELSE IF player_0_bean_sum < player_1_bean_sum THEN <<-1, 1>>
        ELSE <<0, 0>>

\* Returns yielding the raw bean sums (the returns left commented out).
Returns_RawSums(s) ==
    LET player_0_bean_sum ==
            Accumulate(s.board_, 1, kTotalPits \div 2 + 1, 0)
        player_1_bean_sum ==
            Accumulate(s.board_, kTotalPits \div 2 + 1, Size(s.board_), 0)
                + s.board_[0]
    IN  <<player_0_bean_sum, player_1_bean_sum>>

\* MancalaState::Returns
Returns(s) ==
    LET player_0_bean_sum ==
            Accumulate(s.board_, 1, kTotalPits \div 2 + 1, 0)
        player_1_bean_sum ==
            Accumulate(s.board_, kTotalPits \div 2 + 1, Size(s.board_), 0)
                + s.board_[0]
    IN  IF player_0_bean_sum > player_1_bean_sum THEN <<1, -1>>
        ELSE IF player_0_bean_sum < player_1_bean_sum THEN <<-1, 1>>
        ELSE <<0, 0>>

\* State::ApplyAction of the base class: DoApplyAction, then the history
\* entry and the move number.
StateApplyAction(s, move) ==
    LET player == s.current_player_
        after  == DoApplyAction(s, move)
    IN  [after EXCEPT
            !.history_ = Append(@, [player |-> player, action |-> move]),
            !.move_number_ = @ + 1]

\* absl::StrAppend of a non-negative int: its decimal digits.
Digit(d) == <<"0", "1", "2", "3", "4", "5", "6", "7", "8", "9">>[d + 1]

RECURSIVE StrInt(_)
StrInt(n) ==
    IF n < 10 THEN Digit(n) ELSE StrInt(n \div 10) \o Digit(n % 10)

\* Player 1's row printed from pit 8 up instead of from pit 13 down.
RECURSIVE ToString_Player1Row_Forward(_, _)
ToString_Player1Row_Forward(board, i) ==
    IF i < kNumPits
    THEN StrInt(board[Size(board) \div 2 + 1 + i]) \o "-"
             \o ToString_Player1Row_Forward(board, i + 1)
    ELSE ""

\* What the loops of ToString append from iteration i on.
RECURSIVE ToString_Player1Row(_, _)
ToString_Player1Row(board, i) ==
    IF i < kNumPits
    THEN StrInt(board[Size(board) - 1 - i]) \o "-"
             \o ToString_Player1Row(board, i + 1)
    ELSE ""

RECURSIVE ToString_Separators(_)
ToString_Separators(i) ==
    IF i < kNumPits * 2 - 1 THEN "-" \o ToString_Separators(i + 1) ELSE ""

RECURSIVE ToString_Player0Row(_, _)
ToString_Player0Row(board, i) ==
    IF i < kNumPits
    THEN StrInt(board[i + 1]) \o "-" \o ToString_Player0Row(board, i + 1)
    ELSE ""

\* MancalaState::ToString
ToString(s) ==
    "-" \o ToString_Player1Row(s.board_, 0) \o "\n"
        \o StrInt(s.board_[0]) \o ToString_Separators(0)
        \o StrInt(s.board_[Size(s.board_) \div 2]) \o "\n"
        \o "-" \o ToString_Player0Row(s.board_, 0)

\* MancalaState::ObservationString
ObservationString(s, player) == ToString(s)

\* TensorView<2> view(values, {kCellStates, kNumCells}, true): all zero.
ZeroView == [r \in 0 .. (kCellStates - 1), c \in 0 .. (kNumCells - 1) |-> 0]

\* The loop of ObservationTensor with the bound cell < kNumPits.
RECURSIVE ObservationTensor_Fill_NumPits(_, _, _)
ObservationTensor_Fill_NumPits(view, board, cell) ==
    IF cell < kNumPits
    THEN ObservationTensor_Fill_NumPits(
             [view EXCEPT ![board[cell], cell] = 1], board, cell + 1)
    ELSE view

\* The loop of ObservationTensor from iteration cell on.
RECURSIVE ObservationTensor_Fill(_, _, _)
ObservationTensor_Fill(view, board, cell) ==
    IF cell < kNumCells
    THEN ObservationTensor_Fill([view EXCEPT ![board[cell], cell] = 1],
                                board, cell + 1)
    ELSE view

\* MancalaState::ObservationTensor
ObservationTensor(s, player) == ObservationTensor_Fill(ZeroView, s.board_, 0)

\* UndoAction with current_player_ = player (the line left commented out).
UndoAction_RestorePlayer(s, player, move) ==
    [s EXCEPT !.current_player_ = player,
              !.num_moves_ = @ - 1,
              !.history_ = SubSeq(@, 1, Len(@) - 1),
              !.move_number_ = @ - 1]

\* UndoAction without num_moves_ -= 1.
UndoAction_KeepsCount(s, player, move) ==
    [s EXCEPT !.history_ = SubSeq(@, 1, Len(@) - 1),
              !.move_number_ = @ - 1]

\* MancalaState::UndoAction
UndoAction(s, player, move) ==
    [s EXCEPT !.num_moves_ = @ - 1,
              !.history_ = SubSeq(@, 1, Len(@) - 1),
              !.move_number_ = @ - 1]

\* The implicit copy constructor MancalaState(const MancalaState&):
\* member-wise copy.
CopyState(s) ==
    [board_          |-> s.board_,
     current_player_ |-> s.current_player_,
     num_moves_      |-> s.num_moves_,
     history_        |-> s.history_,
     move_number_    |-> s.move_number_]

\* Clone handing back the object it was called on.
CloneTarget_Alias(self) == self

\* The object MancalaState::Clone returns: a newly allocated one.
CloneTarget(self) == kCloneObj

(* ------------------------------ driver --------------------------------- *)

Range(seq) == {seq[i] : i \in 1 .. Len(seq)}

\* The moves of history h, followed by move, agree with line as far as line
\* goes.
FollowsLine(line, h, move) ==
    /\ \A i \in 1 .. Len(h) : i <= Len(line) => h[i].action = line[i]
    /\ Len(h) < Len(line) => move = line[Len(h) + 1]

\* The driver explores every legal move up to depth MaxMoves, and beyond
\* that depth only the continuations of the lines.
DriverOffers(s, move) ==
    \/ s.num_moves_ < MaxMoves
    \/ \E line \in Lines : FollowsLine(line, s.history_, move)

(* ------------------------------ actions -------------------------------- *)

Init ==
    /\ objs = [o \in {this} |-> NewState]
    /\ clone_ref = kNullRef
    /\ last_call = [op |-> "MancalaState"]
    /\ undone = 0

\* state->ApplyAction(move) on object o, move taken from LegalActions().
ApplyAction(o, move) ==
    /\ o \in DOMAIN objs
    /\ move \in Range(LegalActions(objs[o]))
    /\ objs' = [objs EXCEPT ![o] = StateApplyAction(objs[o], move)]
    /\ last_call' = [op |-> "ApplyAction"]
    /\ UNCHANGED <<clone_ref, undone>>

Play ==
    \E move \in Pits :
        /\ DriverOffers(objs[this], move)
        /\ ApplyAction(this, move)

\* clone = state->Clone()
Clone ==
    /\ clone_ref = kNullRef
    /\ objs[this].num_moves_ <= MaxCloneMoves
    /\ LET r == CloneTarget(this)
       IN  /\ objs' = [o \in DOMAIN objs \cup {r} |->
                          IF o = r THEN CopyState(objs[this]) ELSE objs[o]]
           /\ clone_ref' = r
           /\ last_call' = [op |-> "Clone"]
           /\ UNCHANGED undone

PlayOriginal ==
    \E move \in Pits :
        /\ objs[this].num_moves_ < MaxCloneMoves
        /\ ApplyAction(this, move)

PlayClone ==
    \E move \in Pits :
        /\ clone_ref # kNullRef
        /\ objs[clone_ref].num_moves_ < MaxCloneMoves
        /\ ApplyAction(clone_ref, move)

\* state->UndoAction(player, move) with the last entry of the history.
Undo ==
    /\ undone < MaxUndos
    /\ objs[this].history_ # <<>>
    /\ LET e == objs[this].history_[Len(objs[this].history_)]
       IN  objs' = [objs EXCEPT
                       ![this] = UndoAction(objs[this], e.player, e.action)]
    /\ last_call' = [op |-> "UndoAction"]
    /\ undone' = undone + 1
    /\ UNCHANGED clone_ref

PlayOps ==
    \E move \in Pits :
        /\ objs[this].num_moves_ < MaxOpsMoves
        /\ ApplyAction(this, move)

\* The const member functions: they return a value and change no object.
CallLegalActions ==
    /\ last_call' = [op |-> "LegalActions",
                     value |-> LegalActions(objs[this])]
    /\ UNCHANGED <<objs, clone_ref, undone>>

CallIsTerminal ==
    /\ last_call' = [op |-> "IsTerminal", value |-> IsTerminal(objs[this])]
    /\ UNCHANGED <<objs, clone_ref, undone>>

CallReturns ==
    /\ last_call' = [op |-> "Returns", value |-> Returns(objs[this])]
    /\ UNCHANGED <<objs, clone_ref, undone>>

CallToString ==
    /\ last_call' = [op |-> "ToString", value |-> ToString(objs[this])]
    /\ UNCHANGED <<objs, clone_ref, undone>>

CallObservationString ==
    \E player \in {0, 1} :
        /\ last_call' = [op |-> "ObservationString",
                         value |-> ObservationString(objs[this], player)]
        /\ UNCHANGED <<objs, clone_ref, undone>>

\* Bean counts of kCellStates or more index outside the tensor: the driver
\* does not ask for the tensor of such a state.
CallObservationTensor ==
    \E player \in {0, 1} :
        /\ \A cell \in 0 .. (kNumCells - 1) :
               objs[this].board_[cell] < kCellStates
        /\ last_call' = [op |-> "ObservationTensor",
                         value |-> ObservationTensor(objs[this], player)]
        /\ UNCHANGED <<objs, clone_ref, undone>>

Next == Play

Spec == Init /\ [][Next]_vars

NextClone == PlayOriginal \/ Clone \/ PlayClone

SpecClone == Init /\ [][NextClone]_vars

NextOps ==
    \/ PlayOps
    \/ Undo
    \/ Clone
    \/ CallLegalActions
    \/ CallIsTerminal
    \/ CallReturns
    \/ CallToString
    \/ CallObservationString
    \/ CallObservationTensor

SpecOps == Init /\ [][NextOps]_vars

\* Play that keeps to the lines and is free after their ends: every game is
\* played to its end, and the driver always makes a move when there is one.
PlayLines ==
    \E move \in Pits :
        /\ \E line \in Lines : FollowsLine(line, objs[this].history_, move)
        /\ ApplyAction(this, move)

SpecLines == Init /\ [][PlayLines]_vars /\ WF_vars(PlayLines)

(* ------------------------- claims: vocabulary -------------------------- *)

\* Sum of the bean counts of the pits in S.
RECURSIVE SumPits(_, _)
SumPits(board, S) ==
    IF S = {} THEN 0
    ELSE LET p == CHOOSE x \in S : TRUE
         IN  board[p] + SumPits(board, S \ {p})

Row0 == 1 .. 6

Row1 == 8 .. 13

OwnRow(player) == IF player = 0 THEN Row0 ELSE Row1

RowEmpty(board, row) == \A p \in row : board[p] = 0

\* "All six pits 1..6 are empty or all six pits 8..13 are empty."
SideExhausted(board) == RowEmpty(board, Row0) \/ RowEmpty(board, Row1)

Last(seq) == seq[Len(seq)]

SameGameFields(s, t) ==
    /\ s.board_ = t.board_
    /\ s.current_player_ = t.current_player_
    /\ s.num_moves_ = t.num_moves_

(* ------------------------------ claims --------------------------------- *)

\* C1: in every state reached by applying only actions returned by
\* LegalActions, the bean counts of all 14 pits sum to 48.
C1_Conservation ==
    \A o \in DOMAIN objs : SumPits(objs[o].board_, Pits) = 48

\* A position in which sowing has put beans into both stores.
C1_Witness ==
    /\ objs[this].num_moves_ > 0
    /\ objs[this].board_[0] > 0
    /\ objs[this].board_[7] > 0

\* C2: in every non-terminal state LegalActions holds exactly the mover's own
\* row pits (1..6 for player 0, 8..13 for player 1) with more than 0 beans:
\* no store, no empty pit, no pit of the opponent.
C2_LegalSet ==
    \A o \in DOMAIN objs :
        LET s == objs[o]
        IN  ~SideExhausted(s.board_) =>
                Range(LegalActions(s)) =
                    {p \in OwnRow(s.current_player_) : s.board_[p] > 0}

\* A running game with player 1 to move and an empty pit in player 1's row.
C2_Witness ==
    /\ ~SideExhausted(objs[this].board_)
    /\ objs[this].current_player_ = 1
    /\ \E p \in Row1 : objs[this].board_[p] = 0

\* C3: the sequence returned by LegalActions is in strictly increasing
\* pit-index order, for player 0 and for player 1.
C3_Ascending ==
    \A o \in DOMAIN objs :
        LET moves == LegalActions(objs[o])
        IN  \A i \in 1 .. (Len(moves) - 1) : moves[i] < moves[i + 1]

\* C4: after ApplyAction(pit) on a pit holding n beans the same player moves
\* again iff (pit + n) mod 14 is the mover's home pit (7 for player 0, 0 for
\* player 1), and otherwise the other player moves; from the initial state
\* action 3 leaves player 0 to move and action 1 makes player 1 the mover.
C4_Step ==
    \A o \in DOMAIN objs :
        objs'[o].history_ # objs[o].history_ =>
            LET pit   == Last(objs'[o].history_).action
                n     == objs[o].board_[pit]
                mover == objs[o].current_player_
                home  == IF mover = 0 THEN 7 ELSE 0
                next  == objs'[o].current_player_
            IN  /\ (next = mover) <=> ((pit + n) % 14 = home)
                /\ next # mover => next = 1 - mover
                /\ objs[o].history_ = <<>> /\ pit = 3 => next = 0
                /\ objs[o].history_ = <<>> /\ pit = 1 => next = 1

C4_TurnContinuation == [][C4_Step]_vars

\* Player 1 has just landed in store 0 and moves again.
C4_Witness ==
    /\ objs[this].history_ # <<>>
    /\ Last(objs[this].history_).player = 1
    /\ objs[this].current_player_ = 1

\* C5: IsTerminal is true iff all of pits 1..6 are empty or all of pits
\* 8..13 are empty, whatever the stores hold and whoever is to move.
C5_TerminalIff ==
    \A o \in DOMAIN objs :
        IsTerminal(objs[o]) <=> SideExhausted(objs[o].board_)

\* A finished game in which only player 0's row is exhausted.
C5_Witness ==
    /\ RowEmpty(objs[this].board_, Row0)
    /\ ~RowEmpty(objs[this].board_, Row1)
    /\ IsTerminal(objs[this])

\* C6: in a terminal state LegalActions is empty, also when the player to
\* move still has beans in the row; no action is applied to a terminal state.
C6_TerminalHasNoMoves ==
    \A o \in DOMAIN objs :
        SideExhausted(objs[o].board_) => LegalActions(objs[o]) = <<>>

C6_NoStepFromTerminal ==
    \A o \in DOMAIN objs :
        objs'[o] # objs[o] => ~SideExhausted(objs[o].board_)

C6_TerminalMonotone ==
    [] C6_TerminalHasNoMoves /\ [][C6_NoStepFromTerminal]_vars

\* A finished game in which the player to move still has beans in the row.
C6_Witness ==
    /\ SideExhausted(objs[this].board_)
    /\ ~RowEmpty(objs[this].board_, OwnRow(objs[this].current_player_))

\* C7: Returns compares score0 = pits 1..7 with score1 = pits 8..13 plus
\* pit 0 and yields (1,-1), (-1,1) or (0,0) for >, <, =.
C7_Returns ==
    \A o \in DOMAIN objs :
        LET b      == objs[o].board_
            score0 == SumPits(b, 1 .. 7)
            score1 == SumPits(b, 8 .. 13) + b[0]
        IN  /\ score0 > score1 => Returns(objs[o]) = <<1, -1>>
            /\ score0 < score1 => Returns(objs[o]) = <<-1, 1>>
            /\ score0 = score1 => Returns(objs[o]) = <<0, 0>>

\* A finished game that player 0 wins only through the beans left in the
\* row: store 7 alone does not exceed store 0.
C7_Witness ==
    /\ SideExhausted(objs[this].board_)
    /\ objs[this].board_[7] <= objs[this].board_[0]
    /\ Returns(objs[this]) = <<1, -1>>

\* C8: in every terminal state Returns is (1,-1), (-1,1) or (0,0), so the two
\* returns sum to zero.
C8_ZeroSum ==
    \A o \in DOMAIN objs :
        SideExhausted(objs[o].board_) =>
            /\ Returns(objs[o]) \in {<<1, -1>>, <<-1, 1>>, <<0, 0>>}
            /\ Returns(objs[o])[1] + Returns(objs[o])[2] = 0

\* A finished game with a winner.
C8_Witness ==
    /\ SideExhausted(objs[this].board_)
    /\ Returns(objs[this]) = <<-1, 1>>

\* C9: right after Clone the clone's board, player and counter equal the
\* original's; ApplyAction on the clone never changes the original's board,
\* player or counter, and ApplyAction on the original never changes the
\* clone's.
C9_Step ==
    /\ clone_ref = kNullRef /\ clone_ref' # kNullRef =>
            /\ SameGameFields(objs'[clone_ref'], objs[this])
            /\ SameGameFields(objs'[this], objs[this])
    /\ clone_ref # kNullRef /\ (\E move \in Pits : ApplyAction(clone_ref, move)) =>
            SameGameFields(objs'[this], objs[this])
    /\ clone_ref # kNullRef /\ (\E move \in Pits : ApplyAction(this, move)) =>
            SameGameFields(objs'[clone_ref], objs[clone_ref])

C9_CloneIndependent == [][C9_Step]_vars

\* Original and clone were one position after the first move and have since
\* moved apart.
C9_Witness ==
    /\ clone_ref # kNullRef
    /\ objs[clone_ref].num_moves_ > 1
    /\ objs[this].num_moves_ > 1
    /\ objs[this].history_[1] = objs[clone_ref].history_[1]
    /\ objs[this].board_ # objs[clone_ref].board_

\* C10: a newly created state has 4 beans in each of pits 1..6 and 8..13 and
\* 0 beans in pits 0 and 7, 48 beans in all.
C10_InitialBoard ==
    \A o \in DOMAIN objs :
        objs[o].num_moves_ = 0 /\ objs[o].history_ = <<>> =>
            /\ \A p \in Row0 \cup Row1 : objs[o].board_[p] = 4
            /\ objs[o].board_[0] = 0
            /\ objs[o].board_[7] = 0
            /\ SumPits(objs[o].board_, Pits) = 48

\* The state right after construction, no move made.
C10_Witness ==
    /\ objs[this].num_moves_ = 0
    /\ objs[this].move_number_ = 0
    /\ objs[this].current_player_ = 0

(* ---------------------- claims C11..C20: vocabulary -------------------- *)

RowBeans(board) == SumPits(board, Row0 \cup Row1)

\* Number of beans a sowing of n beans from pit puts into pit q.
Dropped(pit, n, q) ==
    Cardinality({i \in 0 .. (n - 1) : (pit + i + 1) % 14 = q})

\* The state reached from a new state by the moves of history h.
RECURSIVE Replay(_)
Replay(h) ==
    IF h = <<>> THEN NewState
    ELSE StateApplyAction(Replay(SubSeq(h, 1, Len(h) - 1)), Last(h).action)

\* Steps to the next store ahead of a row pit; 0 for a store.
ToStore(p) == IF p \in Row0 THEN 7 - p ELSE IF p \in Row1 THEN 14 - p ELSE 0

RECURSIVE WeightedRows(_, _)
WeightedRows(board, S) ==
    IF S = {} THEN 0
    ELSE LET p == CHOOSE x \in S : TRUE
         IN  board[p] * ToStore(p) + WeightedRows(board, S \ {p})

\* A measure every move lowers: beans outside the stores count 289 each,
\* plus the distance the row beans still have to travel to a store.
Rank(board) == RowBeans(board) * 289 + WeightedRows(board, Pits)

(* --------------------------- claims C11..C20 --------------------------- *)

\* C11: board, player to move and move counter are changed only by
\* ApplyAction; LegalActions, IsTerminal, Returns, ToString, Clone, the
\* observation queries and UndoAction leave all three unchanged.
C11_Step ==
    last_call'.op # "ApplyAction" =>
        \A o \in DOMAIN objs : SameGameFields(objs'[o], objs[o])

C11_OnlyApplyActionMutates == [][C11_Step]_vars

\* C11 as amended: the const calls and Clone leave all three unchanged;
\* UndoAction leaves board and player unchanged and lowers the move counter
\* by one.
C11_AmendedStep ==
    /\ last_call'.op \notin {"ApplyAction", "UndoAction"} =>
           \A o \in DOMAIN objs : SameGameFields(objs'[o], objs[o])
    /\ last_call'.op = "UndoAction" =>
           /\ objs'[this].board_ = objs[this].board_
           /\ objs'[this].current_player_ = objs[this].current_player_
           /\ objs'[this].num_moves_ = objs[this].num_moves_ - 1
           /\ \A o \in DOMAIN objs \ {this} :
                  SameGameFields(objs'[o], objs[o])

C11_FrameAmended == [][C11_AmendedStep]_vars

\* A move that passed the turn has been undone: player 1 is still to move.
C11_Witness ==
    /\ last_call.op = "UndoAction"
    /\ objs[this].history_ = <<>>
    /\ objs[this].current_player_ = 1

\* What C12 says ToString renders, pit by pit.
C12_Rendering(b) ==
    "-" \o StrInt(b[13]) \o "-" \o StrInt(b[12]) \o "-" \o StrInt(b[11])
        \o "-" \o StrInt(b[10]) \o "-" \o StrInt(b[9]) \o "-"
        \o StrInt(b[8]) \o "-" \o "\n"
        \o StrInt(b[0]) \o "-----------" \o StrInt(b[7]) \o "\n"
        \o "-" \o StrInt(b[1]) \o "-" \o StrInt(b[2]) \o "-" \o StrInt(b[3])
        \o "-" \o StrInt(b[4]) \o "-" \o StrInt(b[5]) \o "-"
        \o StrInt(b[6]) \o "-"

\* C12: ToString is three lines: '-' and pits 13..8 each followed by '-';
\* pit 0, eleven '-', pit 7; '-' and pits 1..6 each followed by '-'.  The
\* initial state renders as -4-4-4-4-4-4- / 0-----------0 / -4-4-4-4-4-4-.
C12_ToString ==
    \A o \in DOMAIN objs :
        /\ ToString(objs[o]) = C12_Rendering(objs[o].board_)
        /\ objs[o].history_ = <<>> =>
               ToString(objs[o]) =
                   "-4-4-4-4-4-4-\n0-----------0\n-4-4-4-4-4-4-"

\* A board with two-digit counts in both stores and unequal rows.
C12_Witness ==
    /\ objs[this].board_[0] >= 10
    /\ objs[this].board_[7] >= 10
    /\ objs[this].board_[13] # objs[this].board_[8]

\* C13: with every bean count below the number of bean states,
\* ObservationTensor yields a grid with 1 at [board[c], c] and 0 elsewhere in
\* column c, for each of the 14 cells c.
C13_OneHot ==
    last_call.op = "ObservationTensor" =>
        LET b == objs[this].board_
        IN  (\A c \in 0 .. 13 : b[c] < kCellStates) =>
                /\ DOMAIN last_call.value =
                       (0 .. (kCellStates - 1)) \X (0 .. 13)
                /\ \A c \in 0 .. 13 :
                       \A r \in 0 .. (kCellStates - 1) :
                           last_call.value[r, c] = IF r = b[c] THEN 1 ELSE 0

\* The tensor of a position after a move has been asked for.
C13_Witness ==
    /\ last_call.op = "ObservationTensor"
    /\ objs[this].num_moves_ > 0
    /\ objs[this].board_[13] > 4

\* C14: ApplyAction(pit) on n beans leaves in every pit q its previous count
\* (0 for q = pit) plus the number of i in 0..n-1 with (pit+i+1) mod 14 = q;
\* with n >= 14 the chosen pit receives beans again.
C14_Step ==
    \A o \in DOMAIN objs :
        Len(objs'[o].history_) > Len(objs[o].history_) =>
            LET pit == Last(objs'[o].history_).action
                b   == objs[o].board_
                n   == b[pit]
            IN  /\ \A q \in Pits :
                       objs'[o].board_[q] =
                           (IF q = pit THEN 0 ELSE b[q]) + Dropped(pit, n, q)
                /\ n >= 14 => objs'[o].board_[pit] >= 1

C14_Sowing == [][C14_Step]_vars

\* The pit just sown holds a bean again: it held 14 or more.
C14_Witness ==
    /\ objs[this].history_ # <<>>
    /\ objs[this].board_[Last(objs[this].history_).action] > 0

\* C15: UndoAction lowers the move counter by one and removes the last
\* history entry, leaving board and player as they were; so ApplyAction
\* followed by UndoAction restores counter and history length, not the board.
C15_Step ==
    last_call'.op = "UndoAction" =>
        LET s == objs[this]
            u == objs'[this]
        IN  /\ u.num_moves_ = s.num_moves_ - 1
            /\ u.move_number_ = s.move_number_ - 1
            /\ u.history_ = SubSeq(s.history_, 1, Len(s.history_) - 1)
            /\ u.board_ = s.board_
            /\ u.current_player_ = s.current_player_
            /\ undone = 0 =>
                   LET before == Replay(u.history_)
                   IN  /\ u.num_moves_ = before.num_moves_
                       /\ Len(u.history_) = Len(before.history_)
                       /\ u.board_ # before.board_
                       /\ u.current_player_ =
                              StateApplyAction(before,
                                  Last(s.history_).action).current_player_

C15_PartialUndo == [][C15_Step]_vars

\* Move 3 has been undone: counter and history are back, the bean it put
\* into store 7 is still there.
C15_Witness ==
    /\ last_call.op = "UndoAction"
    /\ objs[this].num_moves_ = 0
    /\ objs[this].history_ = <<>>
    /\ objs[this].board_[7] = 1

\* C16: every ApplyAction raises the move counter by exactly one, whether or
\* not the turn passes; after k ApplyAction calls and no UndoAction it is k.
C16_Counted ==
    \A o \in DOMAIN objs :
        /\ objs[o].num_moves_ = Len(objs[o].history_)
        /\ objs[o].move_number_ = Len(objs[o].history_)

C16_Step ==
    \A o \in DOMAIN objs :
        Len(objs'[o].history_) > Len(objs[o].history_) =>
            objs'[o].num_moves_ = objs[o].num_moves_ + 1

C16_MoveCounter == [] C16_Counted /\ [][C16_Step]_vars

\* Two moves made by the same player, the first one keeping the turn.
C16_Witness ==
    /\ objs[this].num_moves_ = 2
    /\ Len(objs[this].history_) = 2
    /\ objs[this].history_[1].player = objs[this].history_[2].player

\* C17: every one of the 14 pits holds 0 beans or more.
C17_NonNegative ==
    \A o \in DOMAIN objs : \A p \in Pits : objs[o].board_[p] >= 0

\* The pit just sown is empty and all its beans went elsewhere.
C17_Witness ==
    /\ objs[this].history_ # <<>>
    /\ objs[this].board_[Last(objs[this].history_).action] = 0
    /\ \E p \in Pits : objs[this].board_[p] >= 12

\* C18: a non-terminal state has at least one legal action; a mover with an
\* empty row occurs only in terminal states.
C18_NeverStuck ==
    \A o \in DOMAIN objs :
        LET s == objs[o]
        IN  /\ ~IsTerminal(s) => Len(LegalActions(s)) >= 1
            /\ RowEmpty(s.board_, OwnRow(s.current_player_)) => IsTerminal(s)

\* The mover has earned another turn and has exactly one pit left to play,
\* in a game that goes on.
C18_Witness ==
    /\ objs[this].history_ # <<>>
    /\ Last(objs[this].history_).player = objs[this].current_player_
    /\ ~SideExhausted(objs[this].board_)
    /\ Len(LegalActions(objs[this])) = 1

\* C19: every play reaches a terminal state after finitely many moves.  Each
\* move lowers Rank, which is never negative.
C19_RankStep == Rank(objs'[this].board_) < Rank(objs[this].board_)

C19_Terminates ==
    /\ <>(IsTerminal(objs[this]))
    /\ [](Rank(objs[this].board_) >= 0)
    /\ [][C19_RankStep]_vars

\* A game played to its end in more than 60 moves.
C19_Witness ==
    /\ IsTerminal(objs[this])
    /\ objs[this].num_moves_ > 60

\* C20: from one state to the next neither store loses beans and the twelve
\* row pits together gain none.
C20_Step ==
    \A o \in DOMAIN objs :
        /\ objs'[o].board_[0] >= objs[o].board_[0]
        /\ objs'[o].board_[7] >= objs[o].board_[7]
        /\ RowBeans(objs'[o].board_) <= RowBeans(objs[o].board_)

C20_StoresMonotone == [][C20_Step]_vars

\* Late in a game: most beans have reached the stores and play goes on.
C20_Witness ==
    /\ objs[this].board_[0] >= 15
    /\ objs[this].board_[7] >= 15
    /\ RowBeans(objs[this].board_) <= 8
    /\ ~SideExhausted(objs[this].board_)

====
